---- MODULE Spec2Model ----
(***************************************************************************)
(* Model of src/repositories.rs: the TodoRepository trait and its two      *)
(* implementations, TodoRepositoryForDB (a `todos` table reached through   *)
(* sqlx) and TodoRepositoryForMemory (a HashMap<i32, Todo> behind a        *)
(* RwLock).  Operations are invoked one at a time on a repository; `last`  *)
(* records the most recent call, its arguments and what it returned, and   *)
(* `live` the ids that create has returned and no successful delete has    *)
(* named since.                                                            *)
(***************************************************************************)
EXTENDS Integers, Sequences, FiniteSets, TLC

\* Bound of the model: how many rows a repository is given (caps the table
\* sequence and the size of the map) and the ids callers ask for.
MaxTodos == 3

\* Bound of the model: how many create calls are counted
MaxCreates == 4

\* Bound of the model: how many rows a repository shared by two handles is
\* given, and the ids their callers ask for
MaxSharedTodos == 2

\* #[validate(length(min = 1))] and #[validate(length(max = 100))]
MinTextLen == 1
MaxTextLen == 100

VARIABLES backend, store, table, seq, last, live

\* The number of successful create calls, counted where a property refers
\* to it
VARIABLES creates

auxVars == <<creates>>

\* Two handles on a repository, each running one call step by step:
\*   heap  the objects behind the handles' Arc (the map with its RwLock, or
\*         the database behind the pool)
\*   ref   the object each handle refers to
\*   pc    where each handle's call stands
\*   cur   each handle's call: its arguments, what it has read and, once
\*         done, what it returned
VARIABLES heap, ref, pc, cur

sharedVars == <<heap, ref, pc, cur>>

vars == <<backend, store, table, seq, last, live, auxVars, sharedVars>>

----------------------------------------------------------------------------
(* Data *)

RECURSIVE Rep(_, _)
Rep(c, n) == IF n = 0 THEN "" ELSE c \o Rep(c, n - 1)

\* The texts callers pass.  CreateTodo and UpdateTodo are validated before
\* they reach a repository, so these are texts the validator accepts: the
\* shortest and the longest it allows.
Texts == { Rep("a", MinTextLen), Rep("b", MaxTextLen) }

Ids == 1 .. MaxTodos

\* Option<T>: None is {}, Some(x) is {x}.
None == {}
Some(x) == {x}
Option(S) == {None} \cup { Some(x) : x \in S }
unwrap_or(o, default) == IF o = None THEN default ELSE CHOOSE x \in o : TRUE

\* struct Todo { id, text, completed }
Todo(id, text, completed) == [id |-> id, text |-> text, completed |-> completed]

\* Todo::new(id, text): completed starts false
TodoNew(id, text) == Todo(id, text, FALSE)

\* struct CreateTodo { text }
CreateTodo == [text : Texts]

\* struct UpdateTodo { text: Option<String>, completed: Option<bool> }
UpdateTodo == [text : Option(Texts), completed : Option(BOOLEAN)]

\* The validator rule on a text: 1 <= length <= 100
ValidText(text) == Len(text) >= MinTextLen /\ Len(text) <= MaxTextLen

\* anyhow::Result of an operation.  Ok carries the returned entities (one
\* for create/find/update, the list for all, none for delete);
\* RepositoryError::NotFound carries the id.
OkTodos(todos) == [kind |-> "Ok", id |-> 0, todos |-> todos]
OkTodo(todo) == OkTodos(<<todo>>)
OkUnit == OkTodos(<< >>)
NotFound(id) == [kind |-> "NotFound", id |-> id, todos |-> << >>]
\* sqlx::Error::RowNotFound passed through `?` without map_err
RowNotFound == [kind |-> "RowNotFound", id |-> 0, todos |-> << >>]

----------------------------------------------------------------------------
(* TodoRepositoryForMemory: store: Arc<RwLock<HashMap<i32, Todo>>> *)

\* HashMap::insert(k, v): adds the key or replaces its value
MapInsert(m, k, v) == [x \in (DOMAIN m) \cup {k} |-> IF x = k THEN v ELSE m[x]]

\* HashMap::remove(k)
MapRemove(m, k) == [x \in (DOMAIN m) \ {k} |-> m[x]]

\* HashMap::values(): the values in an order the map chooses
MapValues(m) ==
    LET n == Cardinality(DOMAIN m)
        orders == { q \in [1 .. n -> DOMAIN m] :
                      \A i, j \in 1 .. n : q[i] = q[j] => i = j }
    IN  { [i \in 1 .. n |-> m[q[i]]] : q \in orders }

\* create as it would be with the entry filed under store.len() instead of
\* the id given to the Todo
MemCreateStaleKey(s, payload) ==
    LET n == Cardinality(DOMAIN s)
        todo == TodoNew(n + 1, payload.text)
    IN  [store |-> MapInsert(s, n, todo), res |-> OkTodo(todo)]

\* create as it would be with the id taken one above the greatest key
MemCreateMaxKey(s, payload) ==
    LET top == IF DOMAIN s = {} THEN 0
               ELSE CHOOSE k \in DOMAIN s : \A o \in DOMAIN s : o <= k
        todo == TodoNew(top + 1, payload.text)
    IN  [store |-> MapInsert(s, top + 1, todo), res |-> OkTodo(todo)]

\* create: id = store.len() + 1, insert Todo::new(id, text), return it
MemCreate(s, payload) ==
    LET id == Cardinality(DOMAIN s) + 1
        todo == TodoNew(id, payload.text)
    IN  [store |-> MapInsert(s, id, todo), res |-> OkTodo(todo)]

\* find: store.get(&id) cloned, or NotFound(id)
MemFind(s, id) ==
    IF id \in DOMAIN s THEN OkTodo(s[id]) ELSE NotFound(id)

\* all: the possible results, one per iteration order of the map
MemAll(s) == { OkTodos(q) : q \in MapValues(s) }

\* update as it would be with the entry written before the lookup is
\* checked: insert returns the old value, and NotFound(id) is raised when
\* there was none
MemUpdateInsertFirst(s, id, payload) ==
    IF id \in DOMAIN s
    THEN LET todo == Todo(id, unwrap_or(payload.text, s[id].text),
                          unwrap_or(payload.completed, s[id].completed))
         IN  [store |-> MapInsert(s, id, todo), res |-> OkTodo(todo)]
    ELSE LET todo == Todo(id, unwrap_or(payload.text, ""),
                          unwrap_or(payload.completed, FALSE))
         IN  [store |-> MapInsert(s, id, todo), res |-> NotFound(id)]

\* update as it would be with payload.text.unwrap_or_default()
MemUpdateTextDefault(s, id, payload) ==
    IF id \notin DOMAIN s
    THEN [store |-> s, res |-> NotFound(id)]
    ELSE LET todo == Todo(id, unwrap_or(payload.text, ""),
                          unwrap_or(payload.completed, s[id].completed))
         IN  [store |-> MapInsert(s, id, todo), res |-> OkTodo(todo)]

\* update: get or NotFound(id); overlay the present fields; insert; return
MemUpdate(s, id, payload) ==
    IF id \notin DOMAIN s
    THEN [store |-> s, res |-> NotFound(id)]
    ELSE LET text == unwrap_or(payload.text, s[id].text)
             completed == unwrap_or(payload.completed, s[id].completed)
             todo == Todo(id, text, completed)
         IN  [store |-> MapInsert(s, id, todo), res |-> OkTodo(todo)]

\* delete as it would be with store.get(&id) in place of store.remove(&id)
MemDeleteGetOnly(s, id) ==
    IF id \in DOMAIN s
    THEN [store |-> s, res |-> OkUnit]
    ELSE [store |-> s, res |-> NotFound(id)]

\* delete: store.remove(&id) or NotFound(id)
MemDelete(s, id) ==
    IF id \in DOMAIN s
    THEN [store |-> MapRemove(s, id), res |-> OkUnit]
    ELSE [store |-> s, res |-> NotFound(id)]

----------------------------------------------------------------------------
(* TodoRepositoryForDB: the rows of table `todos` and the sequence that    *)
(* generates the id column                                                 *)

\* The id the table generates for an inserted row: the next value of its
\* sequence (the insert statement supplies text and completed only).
NextVal(sq) == sq + 1

\* select * from todos where id=$1
SelectWhereId(tbl, id) == { r \in tbl : r.id = id }

\* fetch_one: the first row of the result, or sqlx::Error::RowNotFound.
\* Every result set it is given here holds the rows of one id, of which the
\* sequence makes at most one.
FetchOne(rows) ==
    IF rows = {} THEN RowNotFound ELSE OkTodo(CHOOSE r \in rows : TRUE)

\* order by id desc
RECURSIVE OrderByIdDesc(_)
OrderByIdDesc(rows) ==
    IF rows = {} THEN << >>
    ELSE LET r == CHOOSE x \in rows : \A o \in rows : o.id <= x.id
         IN  <<r>> \o OrderByIdDesc(rows \ {r})

\* create: insert into todos (text, completed) values ($1, false) returning *
DBCreate(tbl, sq, payload) ==
    LET row == Todo(NextVal(sq), payload.text, FALSE)
    IN  [table |-> tbl \cup {row}, seq |-> NextVal(sq), res |-> FetchOne({row})]

\* find as it would be without the map_err: RowNotFound passed through
DBFindNoMapErr(tbl, id) == FetchOne(SelectWhereId(tbl, id))

\* find: select-one, RowNotFound mapped to NotFound(id)
DBFind(tbl, id) ==
    LET r == FetchOne(SelectWhereId(tbl, id))
    IN  IF r.kind = "RowNotFound" THEN NotFound(id) ELSE r

\* order by id asc
RECURSIVE OrderByIdAsc(_)
OrderByIdAsc(rows) ==
    IF rows = {} THEN << >>
    ELSE LET r == CHOOSE x \in rows : \A o \in rows : x.id <= o.id
         IN  <<r>> \o OrderByIdAsc(rows \ {r})

\* all as it would be with the order by clause ascending
DBAllAscending(tbl) == OkTodos(OrderByIdAsc(tbl))

\* all as it would be with fetch_optional in place of fetch_all: at most
\* the first row
DBAllFirstRow(tbl) ==
    LET rows == OrderByIdDesc(tbl)
    IN  OkTodos(IF rows = << >> THEN << >> ELSE <<rows[1]>>)

\* all: select * from todos order by id desc, fetch_all
DBAll(tbl) == OkTodos(OrderByIdDesc(tbl))

\* the update statement as it would be without its where clause
DBUpdateWriteNoWhere(tbl, id, text, completed) ==
    LET written == { Todo(r.id, text, completed) : r \in tbl }
    IN  [table |-> written, res |-> FetchOne(SelectWhereId(written, id))]

\* the update statement as it would be as an upsert: the row is inserted
\* when no row has the id
DBUpdateWriteUpsert(tbl, id, text, completed) ==
    LET row == Todo(id, text, completed)
    IN  [table |-> (tbl \ SelectWhereId(tbl, id)) \cup {row}, res |-> OkTodo(row)]

\* update todos set text=$1, completed=$2 where id=$3 returning *, fetch_one
DBUpdateWrite(tbl, id, text, completed) ==
    LET hit == SelectWhereId(tbl, id)
        written == { Todo(r.id, text, completed) : r \in hit }
    IN  [table |-> (tbl \ hit) \cup written, res |-> FetchOne(written)]

\* update as it would be with payload.completed.unwrap_or(false)
DBUpdateCompletedDefault(tbl, id, payload) ==
    LET old == DBFind(tbl, id)
    IN  IF old.kind # "Ok"
        THEN [table |-> tbl, res |-> old]
        ELSE DBUpdateWrite(tbl, id,
                           unwrap_or(payload.text, old.todos[1].text),
                           unwrap_or(payload.completed, FALSE))

\* update: self.find(id)?, then the update statement with the absent
\* fields taken from the row that find returned
DBUpdate(tbl, id, payload) ==
    LET old == DBFind(tbl, id)
    IN  IF old.kind # "Ok"
        THEN [table |-> tbl, res |-> old]
        ELSE DBUpdateWrite(tbl, id,
                           unwrap_or(payload.text, old.todos[1].text),
                           unwrap_or(payload.completed, old.todos[1].completed))

\* delete: delete from todos where id=$1, execute.  execute returns the
\* number of rows affected and never RowNotFound, so the map_err arm for
\* RowNotFound is never taken and the call returns Ok(()).
DBDelete(tbl, id) ==
    [table |-> tbl \ SelectWhereId(tbl, id), res |-> OkUnit]

----------------------------------------------------------------------------
(* The state machine: one repository, called one operation at a time *)

NoPayload == [text |-> None, completed |-> None]
Call(op, id, payload, res) == [op |-> op, id |-> id, payload |-> payload, res |-> res]

Handles == {1, 2}
NoCall == Call("none", 0, NoPayload, OkUnit)

\* The ids of the entities a result carries
ReturnedIds(res) == { res.todos[i].id : i \in 1 .. Len(res.todos) }

EmptyMap == [x \in {} |-> TodoNew(0, "")]

\* TodoRepositoryForMemory::new() has an empty map; the DB repository is
\* given a pool onto an empty table.
Init ==
    /\ backend \in {"memory", "db"}
    /\ store = EmptyMap
    /\ table = {}
    /\ seq = 0
    /\ last = Call("new", 0, NoPayload, OkUnit)
    /\ live = {}
    /\ creates = 0
    /\ heap = << >>
    /\ ref = [h \in Handles |-> 0]
    /\ pc = [h \in Handles |-> "idle"]
    /\ cur = [h \in Handles |-> NoCall]

MemoryCreate(payload) ==
    /\ backend = "memory"
    /\ Cardinality(DOMAIN store) < MaxTodos
    /\ LET r == MemCreate(store, payload)
       IN  /\ store' = r.store
           /\ last' = Call("create", 0, payload, r.res)
           /\ live' = live \cup ReturnedIds(r.res)
    /\ UNCHANGED <<auxVars, sharedVars, backend, table, seq>>

MemoryFind(id) ==
    /\ backend = "memory"
    /\ last' = Call("find", id, NoPayload, MemFind(store, id))
    /\ UNCHANGED <<auxVars, sharedVars, backend, store, table, seq, live>>

MemoryAll ==
    /\ backend = "memory"
    /\ \E r \in MemAll(store) : last' = Call("all", 0, NoPayload, r)
    /\ UNCHANGED <<auxVars, sharedVars, backend, store, table, seq, live>>

MemoryUpdate(id, payload) ==
    /\ backend = "memory"
    /\ LET r == MemUpdate(store, id, payload)
       IN  /\ store' = r.store
           /\ last' = Call("update", id, payload, r.res)
    /\ UNCHANGED <<auxVars, sharedVars, backend, table, seq, live>>

MemoryDelete(id) ==
    /\ backend = "memory"
    /\ LET r == MemDelete(store, id)
       IN  /\ store' = r.store
           /\ last' = Call("delete", id, NoPayload, r.res)
           /\ live' = IF r.res.kind = "Ok" THEN live \ {id} ELSE live
    /\ UNCHANGED <<auxVars, sharedVars, backend, table, seq>>

DbCreate(payload) ==
    /\ backend = "db"
    /\ seq < MaxTodos
    /\ LET r == DBCreate(table, seq, payload)
       IN  /\ table' = r.table
           /\ seq' = r.seq
           /\ last' = Call("create", 0, payload, r.res)
           /\ live' = live \cup ReturnedIds(r.res)
    /\ UNCHANGED <<auxVars, sharedVars, backend, store>>

DbFind(id) ==
    /\ backend = "db"
    /\ last' = Call("find", id, NoPayload, DBFind(table, id))
    /\ UNCHANGED <<auxVars, sharedVars, backend, store, table, seq, live>>

DbAll ==
    /\ backend = "db"
    /\ last' = Call("all", 0, NoPayload, DBAll(table))
    /\ UNCHANGED <<auxVars, sharedVars, backend, store, table, seq, live>>

DbUpdate(id, payload) ==
    /\ backend = "db"
    /\ LET r == DBUpdate(table, id, payload)
       IN  /\ table' = r.table
           /\ last' = Call("update", id, payload, r.res)
    /\ UNCHANGED <<auxVars, sharedVars, backend, store, seq, live>>

DbDelete(id) ==
    /\ backend = "db"
    /\ LET r == DBDelete(table, id)
       IN  /\ table' = r.table
           /\ last' = Call("delete", id, NoPayload, r.res)
           /\ live' = IF r.res.kind = "Ok" THEN live \ {id} ELSE live
    /\ UNCHANGED <<auxVars, sharedVars, backend, store, seq>>

Next ==
    \/ \E payload \in CreateTodo : MemoryCreate(payload)
    \/ \E id \in Ids : MemoryFind(id)
    \/ MemoryAll
    \/ \E id \in Ids, payload \in UpdateTodo : MemoryUpdate(id, payload)
    \/ \E id \in Ids : MemoryDelete(id)
    \/ \E payload \in CreateTodo : DbCreate(payload)
    \/ \E id \in Ids : DbFind(id)
    \/ DbAll
    \/ \E id \in Ids, payload \in UpdateTodo : DbUpdate(id, payload)
    \/ \E id \in Ids : DbDelete(id)

Spec == Init /\ [][Next]_vars

----------------------------------------------------------------------------
(* The in-memory repository with its create calls counted *)

InitCount == Init /\ backend = "memory"

\* create, counted: every call of create returns Ok
CountedMemoryCreate(payload) ==
    /\ backend = "memory"
    /\ creates < MaxCreates
    /\ Cardinality(DOMAIN store) < MaxTodos
    /\ LET r == MemCreate(store, payload)
       IN  /\ store' = r.store
           /\ last' = Call("create", 0, payload, r.res)
           /\ live' = live \cup ReturnedIds(r.res)
           /\ creates' = IF r.res.kind = "Ok" THEN creates + 1 ELSE creates
    /\ UNCHANGED <<sharedVars, backend, table, seq>>

NextCount ==
    \/ \E payload \in CreateTodo : CountedMemoryCreate(payload)
    \/ \E id \in Ids : MemoryFind(id)
    \/ MemoryAll
    \/ \E id \in Ids, payload \in UpdateTodo : MemoryUpdate(id, payload)
    \/ \E id \in Ids : MemoryDelete(id)

SpecCount == InitCount /\ [][NextCount]_vars

----------------------------------------------------------------------------
(* Two handles on one repository, the second a clone of the first, each    *)
(* making one call.  The calls run step by step: a call of the in-memory   *)
(* repository takes the RwLock, works on the map and drops the guard on    *)
(* return; a call of the DB repository runs its statements, each one       *)
(* atomic in the database.                                                 *)

SharedIds == 1 .. MaxSharedTodos

\* The entities a repository may hold when its handle is cloned: any that
\* creates, updates and deletes leave behind.
Entries(S) == { [k \in S |-> Todo(k, f[k][1], f[k][2])] : f \in [S -> Texts \X BOOLEAN] }

Object(s, tbl, sq) ==
    [store |-> s, table |-> tbl, seq |-> sq, writer |-> 0, readers |-> {}]

InitialObjects ==
    IF backend = "memory"
    THEN { Object(m, {}, 0) : m \in UNION { Entries(S) : S \in SUBSET SharedIds } }
    ELSE UNION { { Object(EmptyMap, { m[k] : k \in DOMAIN m }, sq) :
                     m \in UNION { Entries(S) : S \in SUBSET (1 .. sq) } } :
                 sq \in 0 .. MaxSharedTodos }

\* Clone as it would be if it copied the data: a new object holding a copy
CloneRepoDeep(hp, r) == [heap |-> Append(hp, hp[r]), ref |-> Len(hp) + 1]

\* #[derive(Clone)] on a struct whose field is an Arc (or a PgPool): the
\* clone refers to the same object
CloneRepo(hp, r) == [heap |-> hp, ref |-> r]

\* RwLock::read / RwLock::write return once the lock can be taken
CanRead(o) == o.writer = 0

\* write as it would be if it did not wait for the lock
CanWriteNoWait(o) == TRUE

CanWrite(o) == o.writer = 0 /\ o.readers = {}

\* dropping the guard
Unlock(o, h) ==
    [o EXCEPT !.writer = IF @ = h THEN 0 ELSE @, !.readers = @ \ {h}]

\* the second half of the in-memory update: the Todo built from the payload
\* and the entry that get returned, inserted
MemUpdateInsert(s, id, payload, old) ==
    LET todo == Todo(id, unwrap_or(payload.text, old.text),
                     unwrap_or(payload.completed, old.completed))
    IN  [store |-> MapInsert(s, id, todo), res |-> OkTodo(todo)]

\* the update statement as it would be if the absent fields were taken from
\* the row as it is when the statement runs
DBUpdateFromCurrent(tbl, id, payload, old) ==
    LET now == FetchOne(SelectWhereId(tbl, id))
        row == IF now.kind = "Ok" THEN now.todos[1] ELSE old
    IN  DBUpdateWrite(tbl, id, unwrap_or(payload.text, row.text),
                      unwrap_or(payload.completed, row.completed))

\* the second half of the DB update: the update statement, bound to the
\* payload's fields or else those of the row that find returned
DBUpdateFrom(tbl, id, payload, old) ==
    DBUpdateWrite(tbl, id, unwrap_or(payload.text, old.text),
                  unwrap_or(payload.completed, old.completed))

Obj(h) == heap[ref[h]]

InitShared ==
    /\ backend \in {"memory", "db"}
    /\ store = EmptyMap
    /\ table = {}
    /\ seq = 0
    /\ last = Call("new", 0, NoPayload, OkUnit)
    /\ live = {}
    /\ creates = 0
    /\ \E o \in InitialObjects :
           LET c == CloneRepo(<<o>>, 1)
           IN  /\ heap = c.heap
               /\ ref = [h \in Handles |-> IF h = 1 THEN 1 ELSE c.ref]
    /\ pc = [h \in Handles |-> "idle"]
    /\ cur = [h \in Handles |-> NoCall]

seqVars == <<backend, store, table, seq, last, live, auxVars>>

\* The call of h returns res (the guard, if any, is dropped) with the
\* object left as o
Return(h, call, o, res) ==
    /\ heap' = [heap EXCEPT ![ref[h]] = Unlock(o, h)]
    /\ pc' = [pc EXCEPT ![h] = "done"]
    /\ cur' = [cur EXCEPT ![h] = Call(call.op, call.id, call.payload, res)]

\* create, update, delete: let mut store = self.write_store_ref()
MemWriteLock(h, op, id, payload) ==
    /\ backend = "memory"
    /\ pc[h] = "idle"
    /\ op = "create" => Cardinality(DOMAIN Obj(h).store) < MaxSharedTodos
    /\ CanWrite(Obj(h))
    /\ heap' = [heap EXCEPT ![ref[h]].writer = h]
    /\ pc' = [pc EXCEPT ![h] = "held"]
    /\ cur' = [cur EXCEPT ![h] = Call(op, id, payload, OkUnit)]
    /\ UNCHANGED <<seqVars, ref>>

\* find, all: let store = self.read_store_ref()
MemReadLock(h, op, id) ==
    /\ backend = "memory"
    /\ pc[h] = "idle"
    /\ CanRead(Obj(h))
    /\ heap' = [heap EXCEPT ![ref[h]].readers = @ \cup {h}]
    /\ pc' = [pc EXCEPT ![h] = "held"]
    /\ cur' = [cur EXCEPT ![h] = Call(op, id, NoPayload, OkUnit)]
    /\ UNCHANGED <<seqVars, ref>>

\* update: store.get(&id).context(NotFound(id))?
MemUpdateGet(h) ==
    /\ backend = "memory"
    /\ pc[h] = "held"
    /\ cur[h].op = "update"
    /\ LET old == MemFind(Obj(h).store, cur[h].id)
       IN  IF old.kind = "Ok"
           THEN /\ pc' = [pc EXCEPT ![h] = "read"]
                /\ cur' = [cur EXCEPT ![h].res = old]
                /\ UNCHANGED heap
           ELSE Return(h, cur[h], Obj(h), old)
    /\ UNCHANGED <<seqVars, ref>>

\* update: the Todo is built and inserted, and returned
MemUpdatePut(h) ==
    /\ backend = "memory"
    /\ pc[h] = "read"
    /\ LET r == MemUpdateInsert(Obj(h).store, cur[h].id, cur[h].payload,
                                cur[h].res.todos[1])
       IN  Return(h, cur[h], [Obj(h) EXCEPT !.store = r.store], r.res)
    /\ UNCHANGED <<seqVars, ref>>

\* create, delete, find, all: the body under the guard, and the return
MemFinish(h) ==
    /\ backend = "memory"
    /\ pc[h] = "held"
    /\ cur[h].op # "update"
    /\ LET o == Obj(h)
           c == cur[h]
       IN  \/ /\ c.op = "create"
              /\ LET r == MemCreate(o.store, c.payload)
                 IN  Return(h, c, [o EXCEPT !.store = r.store], r.res)
           \/ /\ c.op = "delete"
              /\ LET r == MemDelete(o.store, c.id)
                 IN  Return(h, c, [o EXCEPT !.store = r.store], r.res)
           \/ /\ c.op = "find"
              /\ Return(h, c, o, MemFind(o.store, c.id))
           \/ /\ c.op = "all"
              /\ \E r \in MemAll(o.store) : Return(h, c, o, r)
    /\ UNCHANGED <<seqVars, ref>>

\* create, find, all, delete of the DB repository: one statement
DbStatement(h, op, id, payload) ==
    /\ backend = "db"
    /\ pc[h] = "idle"
    /\ LET o == Obj(h)
           c == Call(op, id, payload, OkUnit)
       IN  \/ /\ op = "create"
              /\ o.seq < MaxSharedTodos
              /\ LET r == DBCreate(o.table, o.seq, payload)
                 IN  Return(h, c, [o EXCEPT !.table = r.table, !.seq = r.seq], r.res)
           \/ /\ op = "delete"
              /\ LET r == DBDelete(o.table, id)
                 IN  Return(h, c, [o EXCEPT !.table = r.table], r.res)
           \/ /\ op = "find"
              /\ Return(h, c, o, DBFind(o.table, id))
           \/ /\ op = "all"
              /\ Return(h, c, o, DBAll(o.table))
    /\ UNCHANGED <<seqVars, ref>>

\* update of the DB repository: let old_todo = self.find(id).await?
DbUpdateLookup(h, id, payload) ==
    /\ backend = "db"
    /\ pc[h] = "idle"
    /\ LET old == DBFind(Obj(h).table, id)
           c == Call("update", id, payload, old)
       IN  IF old.kind = "Ok"
           THEN /\ pc' = [pc EXCEPT ![h] = "found"]
                /\ cur' = [cur EXCEPT ![h] = c]
                /\ UNCHANGED heap
           ELSE Return(h, c, Obj(h), old)
    /\ UNCHANGED <<seqVars, ref>>

\* update of the DB repository: the update statement, and the return
DbUpdateWriteBack(h) ==
    /\ backend = "db"
    /\ pc[h] = "found"
    /\ LET o == Obj(h)
           r == DBUpdateFrom(o.table, cur[h].id, cur[h].payload, cur[h].res.todos[1])
       IN  Return(h, cur[h], [o EXCEPT !.table = r.table], r.res)
    /\ UNCHANGED <<seqVars, ref>>

NextShared ==
    \/ \E h \in Handles, payload \in CreateTodo : MemWriteLock(h, "create", 0, payload)
    \/ \E h \in Handles, id \in SharedIds, payload \in UpdateTodo :
           MemWriteLock(h, "update", id, payload)
    \/ \E h \in Handles, id \in SharedIds : MemWriteLock(h, "delete", id, NoPayload)
    \/ \E h \in Handles, id \in SharedIds : MemReadLock(h, "find", id)
    \/ \E h \in Handles : MemReadLock(h, "all", 0)
    \/ \E h \in Handles : MemUpdateGet(h)
    \/ \E h \in Handles : MemUpdatePut(h)
    \/ \E h \in Handles : MemFinish(h)
    \/ \E h \in Handles, payload \in CreateTodo : DbStatement(h, "create", 0, payload)
    \/ \E h \in Handles, id \in SharedIds : DbStatement(h, "find", id, NoPayload)
    \/ \E h \in Handles : DbStatement(h, "all", 0, NoPayload)
    \/ \E h \in Handles, id \in SharedIds : DbStatement(h, "delete", id, NoPayload)
    \/ \E h \in Handles, id \in SharedIds, payload \in UpdateTodo :
           DbUpdateLookup(h, id, payload)
    \/ \E h \in Handles : DbUpdateWriteBack(h)

SpecShared == InitShared /\ [][NextShared]_vars

----------------------------------------------------------------------------
(* What the repository holds and what a read of it would return now *)

\* The entities stored
Stored == IF backend = "memory" THEN { store[k] : k \in DOMAIN store } ELSE table

\* The ids that have a stored entity
StoredIds == IF backend = "memory" THEN DOMAIN store ELSE { r.id : r \in table }

\* What find(id) returns on a given map or table
FindIn(s, tbl, id) == IF backend = "memory" THEN MemFind(s, id) ELSE DBFind(tbl, id)

\* What find(id) returns in the current state
FindNow(id) == FindIn(store, table, id)

\* What all() may return in the current state
AllNow == IF backend = "memory" THEN MemAll(store) ELSE {DBAll(table)}

\* The entity a create, find or update returned
Returned == last.res.todos[1]

----------------------------------------------------------------------------
(* Properties *)

\* C1: create returns a Todo with the payload's text and completed = false,
\* and a find of its id issued next returns an entity equal to it, in both
\* backends and after any sequence of operations.
CreateReturnsNew ==
    last.op = "create" =>
        /\ last.res.kind = "Ok"
        /\ Len(last.res.todos) = 1
        /\ Returned.text = last.payload.text
        /\ Returned.completed = FALSE
        /\ FindNow(Returned.id) = last.res

FindAfterCreate ==
    (last.op = "create" /\ last'.op = "find" /\ last'.id = Returned.id)
        => last'.res = last.res

C1_CreateThenFind == []CreateReturnsNew /\ [][FindAfterCreate]_vars

\* C1 witness: a create on a repository that already held entities, whose
\* result a find of the returned id gives back.
C1_Witness ==
    /\ last.op = "create"
    /\ Cardinality(StoredIds) >= 2
    /\ FindNow(Returned.id) = last.res
    /\ Returned.text = Rep("b", MaxTextLen)

\* C2: create assigns an id that no stored entity has at the moment of the
\* call, so it replaces nothing and the number of stored entities grows by
\* exactly one.
CreateIsFresh ==
    last'.op = "create" =>
        /\ last'.res.todos[1].id \notin StoredIds
        /\ Stored \subseteq Stored'
        /\ Cardinality(StoredIds') = Cardinality(StoredIds) + 1

C2_CreateAssignsUniqueId == [][CreateIsFresh]_vars

\* C3: find and delete of an id that no stored entity has fail with
\* NotFound(id).
AbsentIdNotFound ==
    (last'.op \in {"find", "delete"} /\ last'.id \notin StoredIds)
        => last'.res = NotFound(last'.id)

C3_FindDeleteAbsentNotFound == [][AbsentIdNotFound]_vars

\* C4: update of an id that exists returns and stores an entity with the
\* same id, whose text and completed are the payload's where present and
\* the previously stored ones otherwise; with both fields absent nothing
\* stored changes.
UpdateOverlays ==
    (last'.op = "update" /\ last'.id \in StoredIds) =>
        LET id == last'.id
            old == FindNow(id).todos[1]
            new == Todo(id, unwrap_or(last'.payload.text, old.text),
                        unwrap_or(last'.payload.completed, old.completed))
        IN  /\ last'.res = OkTodo(new)
            /\ FindIn(store', table', id) = OkTodo(new)
            /\ (last'.payload.text # None /\ last'.payload.completed = None)
                   => new.completed = old.completed
            /\ last'.payload = NoPayload => Stored' = Stored

C4_UpdateOverlaysPresentFields == [][UpdateOverlays]_vars

\* C4 witness: a text-only patch has been applied to an entity that was
\* completed, and the entity is still completed.
C4_Witness ==
    /\ last.op = "update"
    /\ last.res.kind = "Ok"
    /\ last.payload.text # None
    /\ last.payload.completed = None
    /\ Returned.completed = TRUE
    /\ FindNow(last.id) = last.res

\* C5: update of an id that no stored entity has fails with NotFound(id),
\* whatever the payload, and creates no entity with that id.
UpdateAbsentNotFound ==
    (last'.op = "update" /\ last'.id \notin StoredIds) =>
        /\ last'.res = NotFound(last'.id)
        /\ last'.id \notin StoredIds'

C5_UpdateAbsentNotFound == [][UpdateAbsentNotFound]_vars

\* C5 witness: an update with a present field has failed with NotFound on
\* a repository that holds other entities.
C5_Witness ==
    /\ last.op = "update"
    /\ last.res = NotFound(last.id)
    /\ last.payload.text # None
    /\ StoredIds # {}
    /\ last.id \notin StoredIds

\* C6: after a delete(id) that returned success, find(id) issued next fails
\* with NotFound(id) and all() issued next holds no entity with that id.
DeletedIsGone ==
    (last.op = "delete" /\ last.res.kind = "Ok") =>
        /\ FindNow(last.id) = NotFound(last.id)
        /\ \A r \in AllNow : last.id \notin ReturnedIds(r)

ReadAfterDelete ==
    (last.op = "delete" /\ last.res.kind = "Ok") =>
        /\ (last'.op = "find" /\ last'.id = last.id)
               => last'.res = NotFound(last.id)
        /\ last'.op = "all" => last.id \notin ReturnedIds(last'.res)

C6_DeleteThenAbsent == []DeletedIsGone /\ [][ReadAfterDelete]_vars

\* C6 witness: a delete has succeeded on an id that create had returned,
\* other entities remain, and the id is gone.
C6_Witness ==
    /\ last.op = "delete"
    /\ last.res.kind = "Ok"
    /\ seq + Cardinality(DOMAIN store) >= 2
    /\ StoredIds # {}
    /\ last.id \notin StoredIds
    /\ FindNow(last.id) = NotFound(last.id)

\* C7: all() returns every stored entity: exactly one element per stored
\* id, each equal to what find of that id returns, and nothing else; every
\* id that create returned and that has not been deleted since is among
\* them.
IsEveryStored(res) ==
    /\ res.kind = "Ok"
    /\ Len(res.todos) = Cardinality(StoredIds)
    /\ ReturnedIds(res) = StoredIds
    /\ \A i \in 1 .. Len(res.todos) : FindNow(res.todos[i].id) = OkTodo(res.todos[i])
    /\ live \subseteq ReturnedIds(res)

IsDescending(todos) ==
    \A i, j \in 1 .. Len(todos) : i < j => todos[i].id > todos[j].id

DbAllDescending ==
    backend = "db" =>
        /\ IsDescending(DBAll(table).todos)
        /\ last.op = "all" => IsDescending(last.res.todos)
        /\ last.op = "create" => DBAll(table).todos[1] = Returned

AllAfterDbCreate ==
    (backend = "db" /\ last.op = "create" /\ last'.op = "all")
        => last'.res.todos[1] = Returned

C8_DbAllDescendingNewestFirst == []DbAllDescending /\ [][AllAfterDbCreate]_vars

\* C8 witness: all() on a table of several rows, listed in descending id
\* order.
C8_Witness ==
    /\ backend = "db"
    /\ last.op = "all"
    /\ Len(last.res.todos) >= 2
    /\ IsDescending(last.res.todos)

\* C9: an operation that returns an error leaves the stored entities and
\* all their fields exactly as they were before the call.
ErrorChangesNothing ==
    last'.res.kind # "Ok" => (store' = store /\ table' = table /\ Stored' = Stored)

C9_ErrorLeavesStoreUnchanged == [][ErrorChangesNothing]_vars

\* C9 witness: a delete has returned an error on a repository that holds
\* entities.
C9_Witness ==
    /\ last.op = "delete"
    /\ last.res.kind # "Ok"
    /\ StoredIds # {}

\* C10: with every text passed to the repository of length 1 to 100, every
\* Todo returned by create, find, all or update has a text of length 1 to
\* 100.
C10_ReturnedTextsValid ==
    /\ \A text \in Texts : ValidText(text)
    /\ \A i \in 1 .. Len(last.res.todos) : ValidText(last.res.todos[i].text)
    /\ \A id \in Ids : \A i \in 1 .. Len(FindNow(id).todos) :
           ValidText(FindNow(id).todos[i].text)
    /\ \A r \in AllNow : \A i \in 1 .. Len(r.todos) : ValidText(r.todos[i].text)

\* C10 witness: an update that gave no text has returned an entity whose
\* text is of the greatest length allowed.
C10_Witness ==
    /\ last.op = "update"
    /\ last.res.kind = "Ok"
    /\ last.payload.text = None
    /\ Len(Returned.text) = MaxTextLen

\* C14: the in-memory create assigns id = (number of stored entities) + 1
\* and files the new entity under it, replacing the entity that has this id
\* when there is one; after create, create, create, delete(2) the next
\* create returns id 3 while entity 3 is stored, and the map holds 2
\* entities.
MemCreateIsSizePlusOne ==
    (backend = "memory" /\ last'.op = "create") =>
        LET new == last'.res.todos[1]
            n == Cardinality(DOMAIN store)
        IN  /\ new.id = n + 1
            /\ DOMAIN store' = (DOMAIN store) \cup {new.id}
            /\ store'[new.id] = new
            /\ new.id \in DOMAIN store => Cardinality(DOMAIN store') = n

C14_MemCreateIdIsSizePlusOne == [][MemCreateIsSizePlusOne]_vars

\* C14 witness: the map held entities 1 and 3 (entity 2 deleted), create
\* has returned id 3, and the map holds 2 entities.
C14_Witness ==
    /\ backend = "memory"
    /\ last.op = "create"
    /\ Returned.id = Cardinality(DOMAIN store) + 1
    /\ DOMAIN store = {1, Returned.id}
    /\ Cardinality(DOMAIN store) = 2
    /\ store[Returned.id] = Returned

\* C15: find, all, update and delete return the same outcome in the two
\* backends on stores that hold the same entities, and leave them holding
\* the same entities.
MapRows(s) == { s[k] : k \in DOMAIN s }

RowsMap(tbl) == [k \in { r.id : r \in tbl } |-> CHOOSE r \in tbl : r.id = k]

SameCall(m, d) == m.res = d.res /\ MapRows(m.store) = d.table

Mirrors(s, tbl) ==
    /\ \A id \in Ids : MemFind(s, id) = DBFind(tbl, id)
    /\ \A r \in MemAll(s) :
           /\ r.kind = DBAll(tbl).kind
           /\ Len(r.todos) = Len(DBAll(tbl).todos)
           /\ { r.todos[i] : i \in 1 .. Len(r.todos) } = tbl
    /\ \A id \in Ids, payload \in UpdateTodo :
           SameCall(MemUpdate(s, id, payload), DBUpdate(tbl, id, payload))
    /\ \A id \in Ids : SameCall(MemDelete(s, id), DBDelete(tbl, id))

C15_MemoryMirrorsDb ==
    IF backend = "memory" THEN Mirrors(store, MapRows(store))
                          ELSE Mirrors(RowsMap(table), table)

\* C17: update and delete leave every stored entity of another id as it
\* was and neither add nor remove another id; find and all do not change
\* what is stored.
FrameEffect ==
    /\ last'.op \in {"update", "delete"} =>
           { e \in Stored : e.id # last'.id } = { e \in Stored' : e.id # last'.id }
    /\ last'.op \in {"find", "all"} => (store' = store /\ table' = table)

C17_OtherIdsUntouched == [][FrameEffect]_vars

\* C17 witness: an update has changed an entity while another entity, of a
\* different text and completed, is stored beside it.
C17_Witness ==
    /\ last.op = "update"
    /\ last.res.kind = "Ok"
    /\ last.payload.completed = Some(TRUE)
    /\ \E e \in Stored :
           /\ e.id # last.id
           /\ e.completed = FALSE
           /\ e.text # Returned.text

\* C18: in the in-memory backend every key k of the map holds a Todo whose
\* id is k, and every key is at least 1 and at most the number of
\* successful create calls made so far.
C18_KeysAreIdsWithinCreates ==
    backend = "memory" =>
        \A k \in DOMAIN store :
            /\ store[k].id = k
            /\ k >= 1
            /\ k <= creates

\* C18 witness: after deletes, the map holds only a key equal to the
\* number of creates made, above the number of entities stored, and its
\* entity has been updated.
C18_Witness ==
    /\ backend = "memory"
    /\ \E k \in DOMAIN store :
           /\ k = creates
           /\ k > Cardinality(DOMAIN store)
           /\ store[k].completed
           /\ store[k].id = k

----------------------------------------------------------------------------
(* Properties of two handles on one repository *)

\* What find(id) and all() return through handle h in the current state
FindAt(o, id) ==
    IF backend = "memory" THEN MemFind(o.store, id) ELSE DBFind(o.table, id)

FindVia(h, id) == FindAt(Obj(h), id)

AllVia(h) ==
    IF backend = "memory" THEN MemAll(Obj(h).store) ELSE {DBAll(Obj(h).table)}

\* The rows or map entries behind handle h that have the id
RowsVia(h, id) ==
    IF backend = "memory"
    THEN { Obj(h).store[k] : k \in (DOMAIN Obj(h).store) \cap {id} }
    ELSE SelectWhereId(Obj(h).table, id)

\* The call of h has returned
Done(h) == pc[h] = "done"

\* h holds the lock of the map, as a writer or at all
Holds(h) == pc[h] \in {"held", "read"}
HoldsWrite(h) == Holds(h) /\ cur[h].op \in {"create", "update", "delete"}

\* The call of h is an update of id that patches only the text, or only
\* completed
TextOnly(h, id) ==
    /\ cur[h].op = "update" /\ cur[h].id = id
    /\ cur[h].payload.text # None /\ cur[h].payload.completed = None

CompletedOnly(h, id) ==
    /\ cur[h].op = "update" /\ cur[h].id = id
    /\ cur[h].payload.text = None /\ cur[h].payload.completed # None

\* C11: a clone of a handle refers to the same store: find and all return
\* the same through either handle in every state, and what a create, update
\* or delete through one handle has done is what find returns through the
\* other.
SameView ==
    \A h, k \in Handles :
        /\ ref[h] = ref[k]
        /\ AllVia(h) = AllVia(k)
        /\ \A id \in SharedIds : FindVia(h, id) = FindVia(k, id)

SeenThroughOther ==
    \A h, k \in Handles :
        (h # k /\ ~Done(h) /\ Done(h)' /\ cur'[h].res.kind = "Ok") =>
            /\ cur'[h].op \in {"create", "update"} =>
                   FindAt(Obj(k)', cur'[h].res.todos[1].id) = cur'[h].res
            /\ cur'[h].op = "delete" =>
                   FindAt(Obj(k)', cur'[h].id) = NotFound(cur'[h].id)

C11_CloneSharesStore == []SameView /\ [][SeenThroughOther]_vars

\* C11 witness: a create through handle 1 has returned an entity, and a
\* find of its id through handle 2 has returned the same entity.
C11_Witness ==
    /\ Done(1) /\ Done(2)
    /\ cur[1].op = "create"
    /\ cur[2].op = "find"
    /\ cur[2].res.kind = "Ok"
    /\ cur[2].res = cur[1].res

\* C12: the DB update is a lookup and then a separate write: the write sets
\* the fields absent from the payload to what the lookup returned, whatever
\* the row holds by then; so of two concurrent updates of one id, one of the
\* text only and one of completed only, both can succeed with one change
\* lost.
WritesBackWhatItRead ==
    \A h \in Handles :
        (backend = "db" /\ pc[h] = "found" /\ Done(h)' /\ cur'[h].res.kind = "Ok") =>
            LET old == cur[h].res.todos[1]
                row == Todo(cur[h].id, unwrap_or(cur[h].payload.text, old.text),
                            unwrap_or(cur[h].payload.completed, old.completed))
            IN  /\ cur'[h].res = OkTodo(row)
                /\ RowsVia(h, cur[h].id)' = {row}

C12_DbUpdateWritesBackStaleRead == [][WritesBackWhatItRead]_vars

\* C12 witness: handle 1 patched the text and handle 2 completed, of the
\* same row; both returned Ok; the row is what handle 2 returned, with the
\* text handle 1 replaced, and handle 1 saw completed at the other value.
C12_Witness ==
    /\ backend = "db"
    /\ Done(1) /\ Done(2)
    /\ \E id \in SharedIds :
           /\ TextOnly(1, id) /\ CompletedOnly(2, id)
           /\ cur[1].res.kind = "Ok" /\ cur[2].res.kind = "Ok"
           /\ RowsVia(1, id) = {cur[2].res.todos[1]}
           /\ cur[2].res.todos[1].text # cur[1].res.todos[1].text
           /\ cur[2].res.todos[1].completed # cur[1].res.todos[1].completed

\* C13: in the in-memory backend a writer holds the lock from its read of
\* the map to its write and never together with another writer or a
\* reader; so two concurrent updates of one existing id, one of the text
\* only and one of completed only, leave both changes in the entity.
WritersExclude ==
    \A h, k \in Handles :
        (backend = "memory" /\ h # k /\ HoldsWrite(h)) =>
            /\ ~Holds(k)
            /\ Obj(h).writer = h
            /\ Obj(h).readers = {}

BothChangesKept ==
    \A h, k \in Handles, id \in SharedIds :
        ( /\ backend = "memory"
          /\ Done(h) /\ Done(k)
          /\ TextOnly(h, id) /\ CompletedOnly(k, id)
          /\ cur[h].res.kind = "Ok" /\ cur[k].res.kind = "Ok" ) =>
            RowsVia(h, id) =
                { Todo(id, unwrap_or(cur[h].payload.text, ""),
                       unwrap_or(cur[k].payload.completed, FALSE)) }

C13_MemLockSerializesUpdates == WritersExclude /\ BothChangesKept

\* C13 witness: handle 1 patched the text and handle 2 completed, of the
\* same entity; handle 2 ran first and saw the other text; the entity has
\* both changes.
C13_Witness ==
    /\ backend = "memory"
    /\ Done(1) /\ Done(2)
    /\ \E id \in SharedIds :
           /\ TextOnly(1, id) /\ CompletedOnly(2, id)
           /\ cur[1].res.kind = "Ok" /\ cur[2].res.kind = "Ok"
           /\ RowsVia(1, id) = {cur[1].res.todos[1]}
           /\ cur[2].res.todos[1].text # cur[1].res.todos[1].text
           /\ cur[2].res.todos[1].completed = cur[1].res.todos[1].completed
           /\ cur[2].payload.completed = Some(TRUE)

\* C16: when the row of a DB update is deleted between its lookup and its
\* write, the write matches no row: the update returns an error, no row is
\* created, and the id stays absent from find and all.
UpdateOfDeletedRowFails ==
    \A h \in Handles :
        (backend = "db" /\ pc[h] = "found" /\ Done(h)' /\ RowsVia(h, cur[h].id) = {}) =>
            /\ cur'[h].res.kind # "Ok"
            /\ cur'[h].res.todos = << >>
            /\ Obj(h)'.table = Obj(h).table
            /\ FindVia(h, cur[h].id)' = NotFound(cur[h].id)
            /\ \A r \in AllVia(h)' : cur[h].id \notin ReturnedIds(r)

DeletedRowStaysAbsent ==
    \A h \in Handles, id \in SharedIds :
        (backend = "db" /\ id <= Obj(h).seq /\ RowsVia(h, id) = {}) =>
            RowsVia(h, id)' = {}

C16_DbUpdateAfterDeleteFails ==
    [][UpdateOfDeletedRowFails /\ DeletedRowStaysAbsent]_vars

\* C16 witness: handle 2's delete ran between the lookup and the write of
\* handle 1's update of the same id; the update returned an error and the
\* id is absent.
C16_Witness ==
    /\ backend = "db"
    /\ Done(1) /\ Done(2)
    /\ cur[1].op = "update"
    /\ cur[2].op = "delete"
    /\ cur[2].id = cur[1].id
    /\ cur[1].res.kind = "RowNotFound"
    /\ cur[1].payload.text # None
    /\ FindVia(2, cur[1].id) = NotFound(cur[1].id)

====
